---- MODULE Spec2Model ----
(***************************************************************************)
(* Session state machine of the interview pad: the SQL page                *)
(* (src/unnamed/part_000) and the Python page (src/src/app/python/page.tsx)*)
(* of one browser session.  A session shows one of the two pages; the      *)
(* React state of the page, the interpreter handle and the position of     *)
(* each asynchronous handler are the variables.  Presentation-only state   *)
(* (activeTab, showApiKey, difficulty, selectedStage) is not modelled; the  *)
(* form fields mode, topic, companyName and selectedDataset are inputs of    *)
(* the generation.                                                         *)
(*                                                                         *)
(* SQL text is a sequence of tokens: statements, ";" and white space.      *)
(* A JS value that may be null is a sequence of length 0 (null) or 1.      *)
(* Reference solutions of the generated documents are read-only queries.   *)
(***************************************************************************)
EXTENDS Integers, Sequences, FiniteSets, TLC

\* ------------------------------------------------------------------ bounds
\* most rows a table may hold; user INSERTs are offered only below it
MaxRows == 2

\* ----------------------------------------------------------- JS null/value
None == <<>>
Some(x) == <<x>>
IsNull(o) == Len(o) = 0
Val(o) == o[1]

\* ---------------------------------------------------------------- SQL text
Tok(op, tbl, arg) == [op |-> op, tbl |-> tbl, arg |-> arg]
Semi == Tok(";", "", <<>>)
Space == Tok(" ", "", <<>>)
Bad == Tok("bad", "", <<>>)
Create(t) == Tok("create", t, <<>>)
Insert(t, r) == Tok("insert", t, r)
Delete(t) == Tok("delete", t, <<>>)
\* SELECT of the columns numbered in cols, in table order / reverse order
Select(t, cols) == Tok("select", t, cols)
SelectDesc(t, cols) == Tok("selectDesc", t, cols)
Count(t) == Tok("count", t, <<>>)

TableNames == {"t", "u"}
ColName == <<"a", "b">>

IsStmt(k) == k.op \notin {";", " "}
\* the statements of a text, in order, as the engine steps through them
StmtsOf(text) == SelectSeq(text, IsStmt)

\* ------------------------------------------------------ the SQLite engine
\* new SQL.Database(): no tables
EmptyTables == [tn \in TableNames |-> None]

Reverse(s) == [i \in 1..Len(s) |-> s[Len(s) + 1 - i]]

Project(rows, cols) == [k \in 1..Len(rows) |-> [i \in 1..Len(cols) |-> rows[k][cols[i]]]]

\* one statement against the tables: the new tables, the result set it
\* yields (none when it returns no row) and the error it raises, if any
StepStmt(st, tables) ==
  IF st.op = "bad"
    THEN [tables |-> tables, result |-> None, error |-> Some("syntax error")]
  ELSE IF st.op = "create"
    THEN IF IsNull(tables[st.tbl])
           THEN [tables |-> [tables EXCEPT ![st.tbl] = Some(<<>>)], result |-> None, error |-> None]
           ELSE [tables |-> tables, result |-> None, error |-> Some("table already exists")]
  ELSE IF IsNull(tables[st.tbl])
    THEN [tables |-> tables, result |-> None, error |-> Some("no such table")]
  ELSE IF st.op = "insert"
    THEN [tables |-> [tables EXCEPT ![st.tbl] = Some(Append(Val(@), st.arg))], result |-> None, error |-> None]
  ELSE IF st.op = "delete"
    THEN [tables |-> [tables EXCEPT ![st.tbl] = Some(<<>>)], result |-> None, error |-> None]
  ELSE IF st.op = "count"
    THEN [tables |-> tables,
          result |-> Some([columns |-> <<"count">>, values |-> << <<Len(Val(tables[st.tbl]))>> >>]),
          error |-> None]
  ELSE LET rows == IF st.op = "selectDesc" THEN Reverse(Val(tables[st.tbl])) ELSE Val(tables[st.tbl])
       IN [tables |-> tables,
           result |-> IF rows = <<>> THEN None
                      ELSE Some([columns |-> [i \in 1..Len(st.arg) |-> ColName[st.arg[i]]],
                                 values |-> Project(rows, st.arg)]),
           error |-> None]

RECURSIVE ExecStmts(_, _, _)
\* the statements in order; the first error stops the batch and keeps the
\* effects of the statements before it
ExecStmts(stmts, tables, results) ==
  IF stmts = <<>> THEN [tables |-> tables, results |-> results, error |-> None]
  ELSE LET r == StepStmt(Head(stmts), tables)
       IN IF ~IsNull(r.error)
            THEN [tables |-> r.tables, results |-> results, error |-> r.error]
            ELSE ExecStmts(Tail(stmts), r.tables, results \o r.result)

\* db.exec(sql) and db.run(sql) of the engine on a text
DbExec(text, tables) == ExecStmts(StmtsOf(text), tables, <<>>)

\* ----------------------------------------------------------------- helpers
RECURSIVE ObjSet(_, _, _)
\* obj[col] = v on an object kept as its key/value pairs in insertion order
ObjSet(obj, col, v) ==
  IF obj = <<>> THEN << <<col, v>> >>
  ELSE IF Head(obj)[1] = col THEN << <<col, v>> >> \o Tail(obj)
  ELSE <<Head(obj)>> \o ObjSet(Tail(obj), col, v)

RECURSIVE RowObject(_, _, _, _)
RowObject(columns, row, i, obj) ==
  IF i > Len(columns) THEN obj
  ELSE RowObject(columns, row, i + 1, ObjSet(obj, columns[i], row[i]))

\* parseSqlResult: the first result set as a sequence of objects
parseSqlResult(res) ==
  IF res = <<>> THEN <<>>
  ELSE [k \in 1..Len(res[1].values) |-> RowObject(res[1].columns, res[1].values[k], 1, <<>>)]

\* executeSql: {data} or {error}
executeSql(query, db) ==
  IF IsNull(db) THEN [data |-> None, error |-> Some("SQL Engine not loaded yet."), tables |-> EmptyTables]
  ELSE LET r == DbExec(query, Val(db).tables)
       IN IF ~IsNull(r.error)
            THEN [data |-> None, error |-> r.error, tables |-> r.tables]
            ELSE [data |-> Some(parseSqlResult(r.results)), error |-> None, tables |-> r.tables]

\* ---------------------------------------------------------- JSON.stringify
Digits == <<"0", "1", "2", "3", "4", "5", "6", "7", "8", "9">>
NumStr(n) == IF n \in 0..9 THEN Digits[n + 1] ELSE "n"

RECURSIVE JoinComma(_)
\* the pieces of an array or object, separated by ","
JoinComma(parts) ==
  IF parts = <<>> THEN <<>>
  ELSE IF Len(parts) = 1 THEN parts[1]
  ELSE parts[1] \o <<",">> \o JoinComma(Tail(parts))

StringifyObj(obj) ==
  <<"{">> \o JoinComma([i \in 1..Len(obj) |-> <<"\"", obj[i][1], "\"", ":", NumStr(obj[i][2])>>]) \o <<"}">>

\* JSON.stringify of an array of row objects, as its sequence of characters
JSONstringify(rows) ==
  <<"[">> \o JoinComma([k \in 1..Len(rows) |-> StringifyObj(rows[k])]) \o <<"]">>

\* ------------------------------------------------- model text and documents
\* the characters of a model text: an opening fence (three backquotes and
\* json), a closing fence, a line break, an escaped quote, a quote, or the
\* body of a document
Fence == "FENCE_JSON"
FenceEnd == "FENCE"
NL == "LF"
EscQuote == "BACKSLASH_QUOTE"
Quote == "QUOTE"
IsWhite(c) == c \in {NL, " "}

RECURSIVE DropWhite(_)
DropWhite(s) == IF s # <<>> /\ IsWhite(Head(s)) THEN DropWhite(Tail(s)) ELSE s

Trim(s) == Reverse(DropWhite(Reverse(DropWhite(s))))

\* variant of StripFences: the fences stay in the text
StripFencesNone(s) == s

RECURSIVE StripFences(_)
\* text.replace(fences, empty): an opening fence goes with the white space
\* after it, a closing fence with the white space before it
StripFences(s) ==
  IF s = <<>> THEN <<>>
  ELSE IF Head(s) = Fence THEN StripFences(DropWhite(Tail(s)))
  ELSE IF DropWhite(s) # <<>> /\ Head(DropWhite(s)) = FenceEnd THEN StripFences(Tail(DropWhite(s)))
  ELSE <<Head(s)>> \o StripFences(Tail(s))

\* text.replace(escaped quote, quote)
Unescape(s) == [i \in 1..Len(s) |-> IF s[i] = EscQuote THEN Quote ELSE s[i]]

cleanJson(text) == Unescape(Trim(StripFences(text)))

Q(sol) ==
  [title |-> "Short title", difficulty |-> "Easy", tags |-> <<"Tag1">>,
   question |-> "The question text", solution_sql |-> sol, explanation |-> "Explanation"]

NoFlat ==
  [title |-> None, difficulty |-> None, tags |-> None, question |-> None,
   solution_sql |-> None, explanation |-> None]

AllCols == <<1, 2>>

\* the challenge documents the generative service may answer with
SqlDocIds ==
  {"docA", "docB", "docFlat", "docFlatTags", "docBadSchema", "docBadSol", "docNoData", "docNoQuestions",
   "docEmptyQ"}

SqlDoc(id) ==
  CASE id = "docA" ->
         [id |-> id, schema_sql |-> (<<Create("t")>>),
          data_sql |-> Some(<<Insert("t", <<1, 2>>), Semi, Bad, Semi, Space, Semi, Insert("t", <<2, 1>>), Semi>>),
          questions |-> Some(<<Q(<<Select("t", AllCols)>>), Q(<<Count("t")>>), Q(<<Select("u", AllCols)>>)>>),
          flat |-> NoFlat]
    [] id = "docB" ->
         [id |-> id, schema_sql |-> (<<Create("u")>>),
          data_sql |-> Some(<<Insert("u", <<1, 1>>)>>),
          questions |-> Some(<<Q(<<Count("u")>>)>>),
          flat |-> NoFlat]
    [] id = "docFlat" ->
         [id |-> id, schema_sql |-> (<<Create("t")>>),
          data_sql |-> Some(<<Insert("t", <<2, 2>>)>>),
          questions |-> None,
          flat |-> [title |-> Some("Flat title"), difficulty |-> Some("Hard"), tags |-> None,
                    question |-> Some("Flat question"), solution_sql |-> Some(<<Select("t", <<1>>)>>),
                    explanation |-> Some("Flat explanation")]]
    [] id = "docFlatTags" ->
         [id |-> id, schema_sql |-> (<<Create("t")>>),
          data_sql |-> Some(<<Insert("t", <<1, 1>>)>>),
          questions |-> None,
          flat |-> [title |-> Some("Flat title"), difficulty |-> Some("Medium"), tags |-> Some(<<"Window">>),
                    question |-> Some("Flat question"), solution_sql |-> Some(<<Count("t")>>),
                    explanation |-> Some("Flat explanation")]]
    [] id = "docBadSchema" ->
         [id |-> id, schema_sql |-> (<<Create("u"), Semi, Bad>>),
          data_sql |-> Some(<<Insert("u", <<1, 1>>)>>),
          questions |-> Some(<<Q(<<Count("u")>>)>>),
          flat |-> NoFlat]
    [] id = "docNoData" ->
         [id |-> id, schema_sql |-> (<<Create("u")>>),
          data_sql |-> None,
          questions |-> Some(<<Q(<<Count("u")>>)>>),
          flat |-> NoFlat]
    [] id = "docBadSol" ->
         [id |-> id, schema_sql |-> (<<Create("u")>>),
          data_sql |-> Some(<<Insert("u", <<1, 1>>)>>),
          questions |-> Some(<<Q(<<Select("t", AllCols)>>)>>),
          flat |-> NoFlat]
    [] id = "docNoQuestions" ->
         [id |-> id, schema_sql |-> (<<Create("u")>>),
          data_sql |-> Some(<<Insert("u", <<1, 1>>)>>),
          questions |-> None,
          flat |-> NoFlat]
    [] OTHER ->
         [id |-> id, schema_sql |-> (<<Create("u")>>),
          data_sql |-> Some(<<Insert("u", <<1, 1>>)>>),
          questions |-> Some(<<>>),
          flat |-> NoFlat]

\* text.split(';')
RECURSIVE SplitSemi(_, _)
SplitSemi(text, cur) ==
  IF text = <<>> THEN <<cur>>
  ELSE IF Head(text).op = ";" THEN <<cur>> \o SplitSemi(Tail(text), <<>>)
  ELSE SplitSemi(Tail(text), Append(cur, Head(text)))

\* s.trim().length > 0
NonBlank(piece) == \E i \in 1..Len(piece) : piece[i].op # " "

insertStmtsOf(data_sql) == SelectSeq(SplitSemi(data_sql, <<>>), NonBlank)

RECURSIVE RunInsertsAbort(_, _)
\* variant of RunInserts: the first statement that throws ends the batch
RunInsertsAbort(stmts, tables) ==
  IF stmts = <<>> THEN tables
  ELSE LET r == DbExec(Head(stmts), tables)
       IN IF ~IsNull(r.error) THEN r.tables ELSE RunInsertsAbort(Tail(stmts), r.tables)

RECURSIVE RunInserts(_, _)
\* each statement on its own; one that throws is logged and skipped
RunInserts(stmts, tables) ==
  IF stmts = <<>> THEN tables
  ELSE RunInserts(Tail(stmts), DbExec(Head(stmts), tables).tables)

PreviewLimit == 5
Limit(rows, n) == SubSeq(rows, 1, IF Len(rows) < n THEN Len(rows) ELSE n)

\* the first rows of every table of the database, by table name
PreviewsOf(tables) ==
  [tn \in TableNames |->
     IF IsNull(tables[tn]) THEN None
     ELSE Some(parseSqlResult(DbExec(<<Select(tn, AllCols)>>, [tables EXCEPT ![tn] = Some(Limit(Val(@), PreviewLimit))]).results))]

NoPreviews == [tn \in TableNames |-> None]

OrUndefined(o) == IF IsNull(o) THEN "undefined" ELSE Val(o)

\* variant of Normalise: the document is taken as it came
NormaliseNone(doc) == doc

\* a flat single-question document becomes a one-question document
Normalise(doc) ==
  IF IsNull(doc.questions) /\ ~IsNull(doc.flat.question)
    THEN [doc EXCEPT !.questions =
            Some(<<[title |-> OrUndefined(doc.flat.title), difficulty |-> OrUndefined(doc.flat.difficulty),
                    tags |-> IF IsNull(doc.flat.tags) THEN <<>> ELSE Val(doc.flat.tags),
                    question |-> Val(doc.flat.question),
                    solution_sql |-> IF IsNull(doc.flat.solution_sql) THEN <<>> ELSE Val(doc.flat.solution_sql),
                    explanation |-> OrUndefined(doc.flat.explanation)]>>)]
    ELSE doc

\* variant of Reference: a solution that raises leaves an empty result set
\* beside its error
ReferenceBoth(q, tables) ==
  LET r == DbExec(q.solution_sql, tables)
  IN IF ~IsNull(r.error) THEN [result |-> Some(<<>>), error |-> r.error, tables |-> r.tables]
     ELSE [result |-> Some(parseSqlResult(r.results)), error |-> None, tables |-> r.tables]

\* the reference solution of a question against the tables: the cached pair
\* (expectedResult, expectedError)
Reference(q, tables) ==
  LET r == DbExec(q.solution_sql, tables)
  IN IF ~IsNull(r.error) THEN [result |-> None, error |-> r.error, tables |-> r.tables]
     ELSE [result |-> Some(parseSqlResult(r.results)), error |-> None, tables |-> r.tables]

PyDocIds == {"pyA", "pyB", "pyNoStarter"}

PyDoc(id) ==
  [id |-> id, title |-> "Short Title",
   starter_code |-> IF id = "pyNoStarter" THEN None ELSE Some("starter"),
   solution_code |-> "solution"]

\* JSON.parse of the cleaned text: a document, or null when it throws
JSONparse(text, ids) == IF Len(text) = 1 /\ text[1] \in ids THEN Some(text[1]) ELSE None

\* the ways the model wraps a document in its text
TextsOf(id) == {<<id>>, <<Fence, NL, id, NL, FenceEnd>>}

\* what awaiting response.json() of the proxy call gives: it throws, or it
\* is an error envelope, or a candidates envelope, or neither
Envelope(kind, message, text) == [kind |-> kind, message |-> message, text |-> text]

\* ----------------------------------------------------- the generation proxy
\* a JS string that may be undefined is None or Some(string); !x
Falsy(o) == IF IsNull(o) THEN TRUE ELSE Val(o) = ""

\* the key field of the pages: empty until the user types one
ApiKeys == {"", "callerKey"}
\* process.env.GEMINI_API_KEY of the server: unset, empty, or a key
ServerKeys == {None, Some(""), Some("serverKey")}
Prompts == {"prompt", "other prompt"}
\* a request body that request.json() reads: prompt and apiKey?
Body(prompt, apiKey) == [prompt |-> prompt, apiKey |-> apiKey]
\* the bodies the pages post
Requests == {Some(Body("prompt", Some(k))) : k \in ApiKeys}
\* the bodies any caller may post: one that is not JSON, and those with
\* the key absent, empty or given
Bodies == {None} \cup {Some(Body(pr, k)) : pr \in Prompts, k \in {None} \cup {Some(x) : x \in ApiKeys}}

\* what the AI provider does with a request: it answers JSON with an OK
\* status or another, the connection fails, or the answer is not JSON
ProviderAnswer(kind, status, body) == [kind |-> kind, status |-> status, body |-> body]
ProviderFailures ==
  {ProviderAnswer("json", 400, Envelope("error", "API key not valid", <<>>)),
   ProviderAnswer("fetchThrows", 0, Envelope("throws", "fetch failed", <<>>)),
   ProviderAnswer("jsonThrows", 200, Envelope("throws", "Unexpected token", <<>>))}
ProviderAnswers(ids) ==
  {ProviderAnswer("json", 200, Envelope("candidates", "", tx)) :
     tx \in {<<"not json">>} \cup UNION {TextsOf(id) : id \in ids}}
  \cup {ProviderAnswer("json", 200, Envelope("empty", "", <<>>)),
        ProviderAnswer("json", 201, Envelope("empty", "", <<>>))}
  \cup ProviderFailures

\* NextResponse.json(body, {status}) and the requests made to the provider
\* on the way to it
Answer(status, body, calls) == [status |-> status, body |-> body, calls |-> calls]

\* variant of KeyToUse: the server's key comes first
KeyToUseServerFirst(apiKey, envKey) == IF Falsy(envKey) THEN apiKey ELSE envKey

\* apiKey || process.env.GEMINI_API_KEY
KeyToUse(apiKey, envKey) == IF Falsy(apiKey) THEN envKey ELSE apiKey

\* variant of MissingKey: the request goes to the provider without a key
MissingKeyIgnored(keyToUse) == FALSE

\* !keyToUse
MissingKey(keyToUse) == Falsy(keyToUse)

\* variant of RelayStatus: every answer of the provider is relayed as OK
RelayStatusOk(status) == 200

\* response.ok is a status of 200 to 299: NextResponse.json(data) then has
\* the default status, and the provider's status otherwise
RelayStatus(status) == IF status \in 200..299 THEN 200 ELSE status

\* POST: the handler of /api/generate on a request body, with the server's
\* environment and the provider's behaviour
\* variant of Caught: the exception leaves the handler
CaughtRethrown(message, calls) == Answer(0, Envelope("throws", message, <<>>), calls)

\* the catch of the handler: status 500 and an error envelope with the
\* exception's message, or a default text when it has none
Caught(message, calls) ==
  Answer(500, Envelope("error", IF message = "" THEN "Internal Server Error" ELSE message, <<>>), calls)

POST(body, envKey, provider) ==
  IF IsNull(body)
    THEN Caught("Unexpected end of JSON input", <<>>)
  ELSE LET keyToUse == KeyToUse(Val(body).apiKey, envKey)
           calls == <<[key |-> keyToUse, prompt |-> Val(body).prompt]>>
       IN IF MissingKey(keyToUse)
            THEN Answer(400, Envelope("error", "API Key is missing. Please provide one or configure the server.", <<>>), <<>>)
          ELSE IF provider.kind \in {"fetchThrows", "jsonThrows"}
            THEN Caught(provider.body.message, calls)
          ELSE Answer(RelayStatus(provider.status), provider.body, calls)

\* every answer fetch('/api/generate') and response.json() may give a page:
\* the call itself fails, or the handler answers with a body
Responses(ids) ==
  {Envelope("throws", "Failed to fetch", <<>>)}
  \cup {POST(rq, ek, pa).body : rq \in Requests, ek \in ServerKeys, pa \in ProviderAnswers(ids)}

\* ------------------------------------------------------------------- state
VARIABLES
  variant,         \* the page of the session: "sql" or "python"
  crashed,         \* a render threw: the page is gone
  isLoading, isSqlReady, sqlJsRef, dbRef,
  challenge, currentQIndex, tablePreviews, expectedResult, expectedError,
  userQuery, queryResult, feedback,
  env,             \* the engine load of either page: "loading", "ready", "failed"
  gen,             \* the generateChallenge call in flight, if any
  pyodide, isEnvReady, envLoadingText,
  userCode, output, plotImage, isRunning, isGenerating,
  run,             \* the handleRunCode call in flight, if any
  last,            \* history: the handler that ran last and what it saw
  server,          \* the POST handler of the proxy: the request it has, its answer
  parser           \* the response parser of the page: the text it is given, its result

sqlVars ==
  <<isLoading, isSqlReady, sqlJsRef, dbRef, currentQIndex,
    tablePreviews, expectedResult, expectedError, userQuery, queryResult, feedback>>
pyVars ==
  <<pyodide, isEnvReady, envLoadingText, userCode, output, plotImage,
    isRunning, isGenerating, run>>
pageVars == <<variant, crashed, challenge, env, gen, last, sqlVars, pyVars>>
vars == <<pageVars, server, parser>>

Placeholder == <<Tok("bad", "SELECT * FROM ...", <<>>)>>
\* mode: the form field the call closed over (mode, or the dataset); prev:
\* the challenge displayed when the call began; ran: user code has run in
\* the interpreter since
NoGen == [pc |-> "idle", mode |-> "", prev |-> None, ran |-> FALSE]
NoRun == [pc |-> "idle", code |-> ""]
\* op: the handler; idx: the question index it was about; rep: it repeated
\* the selection made by the handler before it; user, sol: the two results
\* a run compared; refPre: the reference result on the database as the run
\* found it; prev: the challenge displayed when the generation began;
\* residue: something that was in the interpreter then is still in it; doc:
\* the document the generation parsed; form: the form fields the SQL
\* generation was requested with
Hist(op) ==
  [op |-> op, idx |-> 0 - 1, rep |-> FALSE, user |-> None, sol |-> None, refPre |-> None,
   prev |-> None, residue |-> FALSE, doc |-> "", form |-> None]

\* the handler of the proxy between two requests
NoRequest == [pc |-> "idle", body |-> None, envKey |-> None, provider |-> ProviderAnswer("", 0, Envelope("", "", <<>>)),
              answer |-> Answer(0, Envelope("", "", <<>>), <<>>)]

\* the parser between two texts
NoText == [pc |-> "idle", text |-> <<>>, fenced |-> <<>>, doc |-> None, fencedDoc |-> None]

\* a feedback banner: its type, the fixed text and the error text appended
Feedback(type, message, detail) == Some([type |-> type, message |-> message, detail |-> detail])

\* the ids of two of the datasets offered
DATASETS == {"titanic", "iris"}

Init ==
  /\ variant \in {"sql", "python"}
  /\ crashed = FALSE
  /\ isLoading = FALSE /\ isSqlReady = FALSE
  /\ sqlJsRef = FALSE /\ dbRef = None
  /\ challenge = None /\ currentQIndex = 0
  /\ tablePreviews = NoPreviews
  /\ expectedResult = None /\ expectedError = None
  /\ userQuery = <<>> /\ queryResult = None /\ feedback = None
  /\ env = "loading"
  /\ gen = NoGen
  /\ pyodide = None /\ isEnvReady = FALSE
  /\ envLoadingText = IF variant = "python" THEN "Loading Python Engine..." ELSE "Waiting to initialize..."
  /\ userCode = "" /\ output = <<>> /\ plotImage = None
  /\ isRunning = FALSE /\ isGenerating = FALSE
  /\ run = NoRun
  /\ last = Hist("init")
  /\ server = NoRequest
  /\ parser = NoText

Sql == variant = "sql" /\ ~crashed
Py == variant = "python" /\ ~crashed

\* ------------------------------------------------------------- the SQL page
\* initEngine, the engine initialised
initEngineOk ==
  /\ Sql /\ env = "loading"
  /\ env' = "ready"
  /\ sqlJsRef' = TRUE
  /\ dbRef' = Some([builtFor |-> "", tables |-> EmptyTables])
  /\ isSqlReady' = TRUE
  /\ last' = Hist("env")
  /\ UNCHANGED <<server, parser, variant, crashed, challenge, gen, pyVars, isLoading,
                 currentQIndex, tablePreviews, expectedResult, expectedError, userQuery,
                 queryResult, feedback>>

\* initEngine, initSqlJs rejected: logged only
initEngineFail ==
  /\ Sql /\ env = "loading"
  /\ env' = "failed"
  /\ last' = Hist("env")
  /\ UNCHANGED <<server, parser, variant, crashed, challenge, gen, pyVars, sqlVars>>

\* variant of StartDisabled: the button waits for a generation only
StartDisabledWhileLoading == isLoading

\* disabled of the Start button
StartDisabled == isLoading \/ ~isSqlReady

Modes == {"manual", "auto", "company"}
Topics == {"", "churn"}
CompanyNames == {"", "Airbnb"}

\* variant of ValidationError: every form passes
ValidationErrorNone(mode, topic, companyName) == None

\* variant of StartIndex: the index stays where it is
StartIndexKept(index) == index

\* setCurrentQIndex(0) of a generation
StartIndex(index) == 0

\* the message of the field the mode needs and the form lacks, if any
ValidationError(mode, topic, companyName) ==
  IF mode = "manual" /\ topic = "" THEN Some("Please enter a topic.")
  ELSE IF mode = "company" /\ companyName = "" THEN Some("Please enter a company name.")
  ELSE None

\* generateChallenge up to the proxy call: validation, then the reset of
\* the displayed state; mode, topic and companyName are the form fields as
\* they stand when the button is pressed
generateStart(mode, topic, companyName) ==
  /\ Sql /\ ~StartDisabled
  /\ LET err == ValidationError(mode, topic, companyName)
         form == [mode |-> mode, topic |-> topic, companyName |-> companyName]
     IN IF ~IsNull(err)
          THEN /\ feedback' = Feedback("error", Val(err), "")
               /\ last' = [Hist("validate") EXCEPT !.form = Some(form)]
               /\ UNCHANGED <<server, parser, variant, crashed, challenge, env, gen, pyVars,
                              isLoading, isSqlReady, sqlJsRef, dbRef, currentQIndex, tablePreviews,
                              expectedResult, expectedError, userQuery, queryResult>>
          ELSE /\ isLoading' = TRUE
               /\ challenge' = None
               /\ currentQIndex' = StartIndex(currentQIndex)
               /\ tablePreviews' = NoPreviews
               /\ expectedResult' = None
               /\ expectedError' = None
               /\ queryResult' = None
               /\ feedback' = None
               /\ userQuery' = <<>>
               /\ gen' = [pc |-> "fetch", mode |-> mode, prev |-> challenge, ran |-> FALSE]
               /\ last' = [Hist("genStart") EXCEPT !.prev = challenge, !.form = Some(form)]
               /\ UNCHANGED <<server, parser, variant, crashed, env, pyVars, isSqlReady,
                              sqlJsRef, dbRef>>

\* variant of FreshDb: the schema is applied to the database already there
FreshDbInPlace(sqlJs, db, id) == db

\* the database the schema is applied to: a new one when the engine is there
FreshDb(sqlJs, db, id) ==
  IF sqlJs THEN Some([builtFor |-> id, tables |-> EmptyTables]) ELSE db

\* variant of GenFail: a failed generation puts the previous challenge back
GenFailRestore(message, db, ch, previews, crash) ==
  [ok |-> FALSE, message |-> message, db |-> db, challenge |-> IF crash THEN ch ELSE gen.prev,
   previews |-> previews, eres |-> expectedResult, eerr |-> expectedError, crash |-> crash, doc |-> ""]

\* what the rest of generateChallenge leaves behind when it throws
GenFail(message, db, ch, previews, crash) ==
  [ok |-> FALSE, message |-> message, db |-> db, challenge |-> ch, previews |-> previews,
   eres |-> expectedResult, eerr |-> expectedError, crash |-> crash, doc |-> ""]

\* variant of RunSchema: an error of the schema is logged and passed over
RunSchemaTolerant(schema_sql, tables) == [DbExec(schema_sql, tables) EXCEPT !.error = None]

\* dbRef.current.run(challengeData.schema_sql), outside any try of its own
RunSchema(schema_sql, tables) == DbExec(schema_sql, tables)

\* variant of FirstQuestion: the last question of the challenge
FirstQuestionLast(qs) == qs[Len(qs)]

\* challengeData.questions[0]
FirstQuestion(qs) == qs[1]

\* generateChallenge from the answer of the proxy to its end
GenResult(resp) ==
  IF resp.kind \in {"throws", "error"}
    THEN GenFail(resp.message, dbRef, challenge, tablePreviews, FALSE)
  ELSE IF resp.kind = "empty"
    THEN GenFail("Cannot read properties of undefined", dbRef, challenge, tablePreviews, FALSE)
  ELSE LET parsed == JSONparse(cleanJson(resp.text), SqlDocIds)
       IN IF IsNull(parsed)
            THEN GenFail("Unexpected token", dbRef, challenge, tablePreviews, FALSE)
          ELSE LET challengeData == Normalise(SqlDoc(Val(parsed)))
                   db1 == FreshDb(sqlJsRef, dbRef, challengeData.id)
               IN IF IsNull(db1)
                    THEN GenFail("Cannot read properties of null", db1, challenge, tablePreviews, FALSE)
                  ELSE LET sch == RunSchema(challengeData.schema_sql, Val(db1).tables)
                           db2 == Some([Val(db1) EXCEPT !.tables = sch.tables])
                       IN IF ~IsNull(sch.error)
                            THEN [GenFail(Val(sch.error), db2, challenge, tablePreviews, FALSE) EXCEPT !.doc = challengeData.id]
                          ELSE IF IsNull(challengeData.data_sql)
                            THEN [GenFail("Cannot read properties of undefined", db2, challenge, tablePreviews, FALSE) EXCEPT !.doc = challengeData.id]
                          ELSE LET tabs == RunInserts(insertStmtsOf(Val(challengeData.data_sql)), sch.tables)
                                   db3 == Some([Val(db1) EXCEPT !.tables = tabs])
                                   previews == PreviewsOf(tabs)
                               IN IF IsNull(challengeData.questions)
                                    THEN [GenFail("Cannot read properties of undefined", db3, Some(challengeData), previews, TRUE) EXCEPT !.doc = challengeData.id]
                                  ELSE LET qs == Val(challengeData.questions)
                                           ref == IF Len(qs) > 0 THEN Reference(FirstQuestion(qs), tabs)
                                                  ELSE [result |-> expectedResult, error |-> expectedError, tables |-> tabs]
                                       IN [ok |-> TRUE, message |-> "", db |-> Some([Val(db1) EXCEPT !.tables = ref.tables]),
                                           challenge |-> Some(challengeData), previews |-> previews,
                                           eres |-> ref.result, eerr |-> ref.error, crash |-> FALSE,
                                           doc |-> challengeData.id]

generateFinish(resp) ==
  /\ Sql /\ gen.pc = "fetch"
  /\ LET r == GenResult(resp)
     IN /\ dbRef' = r.db
        /\ challenge' = r.challenge
        /\ tablePreviews' = r.previews
        /\ expectedResult' = r.eres
        /\ expectedError' = r.eerr
        /\ crashed' = r.crash
        /\ userQuery' = IF r.ok THEN Placeholder ELSE userQuery
        /\ feedback' = IF r.ok
                         THEN Feedback("success", IF gen.mode = "company" THEN "Interview Loop Ready!" ELSE "Challenge generated!", "")
                         ELSE Feedback("error", "Generation failed: ", r.message)
        /\ last' = [Hist(IF r.ok THEN "genOk" ELSE "genFail") EXCEPT !.prev = gen.prev, !.doc = r.doc]
  /\ isLoading' = FALSE
  /\ gen' = NoGen
  /\ UNCHANGED <<server, parser, variant, env, pyVars, isSqlReady, sqlJsRef,
                 currentQIndex, queryResult>>

\* variant of QuestionAt: the question of the index still in the state
QuestionAtStale(ch, newIndex, curIndex) == Val(ch.questions)[curIndex + 1]

\* the question handleQuestionChange computes the reference result of
QuestionAt(ch, newIndex, curIndex) == Val(ch.questions)[newIndex + 1]

QIndexes == (0 - 1)..3

\* variant of SwitchTables: the schema and the data of the challenge are
\* applied again to an empty database
SwitchTablesReloaded(ch, db) ==
  RunInserts(insertStmtsOf(Val(ch.data_sql)), RunSchema(ch.schema_sql, EmptyTables).tables)

\* the tables handleQuestionChange runs the solution against: dbRef.current
SwitchTables(ch, db) == Val(db).tables

\* variant of SwitchExpectedResult: a solution that raises leaves the
\* cached result of the previous question in place
SwitchExpectedResultStale(ref, prev) == IF IsNull(ref.error) THEN ref.result ELSE prev

\* the reference result cached by a switch: the rows of the new question's
\* solution, null when it raised
SwitchExpectedResult(ref, prev) == ref.result

handleQuestionChange(newIndex) ==
  /\ Sql
  /\ IF IsNull(challenge) \/ newIndex < 0 \/ newIndex >= Len(Val(Val(challenge).questions))
       THEN /\ last' = [Hist("qnoop") EXCEPT !.idx = newIndex]
            /\ UNCHANGED <<server, parser, variant, crashed, challenge, env, gen, pyVars, sqlVars>>
       ELSE LET ref == Reference(QuestionAt(Val(challenge), newIndex, currentQIndex), SwitchTables(Val(challenge), dbRef))
            IN /\ currentQIndex' = newIndex
               /\ userQuery' = Placeholder
               /\ queryResult' = None
               /\ feedback' = None
               /\ expectedResult' = SwitchExpectedResult(ref, expectedResult)
               /\ expectedError' = ref.error
               /\ dbRef' = Some([Val(dbRef) EXCEPT !.tables = ref.tables])
               /\ last' = [Hist("qchange") EXCEPT !.idx = newIndex,
                                                   !.rep = (last.op = "qchange" /\ last.idx = newIndex)]
               /\ UNCHANGED <<server, parser, variant, crashed, challenge, env, gen, pyVars, isLoading, isSqlReady, sqlJsRef, tablePreviews>>

\* the queries the user types into the editor
UserQueries ==
  {<<Select("t", AllCols)>>, <<SelectDesc("t", AllCols)>>, <<Select("t", <<2, 1>>)>>,
   <<Select("t", <<1, 1>>)>>, <<Count("t")>>, <<Count("u")>>, <<Delete("t")>>,
   <<Insert("t", <<1, 2>>)>>}

setUserQuery(q) ==
  /\ Sql /\ ~IsNull(challenge) /\ q # userQuery
  /\ userQuery' = q
  /\ last' = Hist("edit")
  /\ UNCHANGED <<server, parser, variant, crashed, challenge, env, gen, pyVars,
                 isLoading, isSqlReady, sqlJsRef, dbRef, currentQIndex, tablePreviews,
                 expectedResult, expectedError, queryResult, feedback>>

\* variant of Matches: the same rows in any order
MatchesUnordered(userData, solutionData) ==
  /\ Len(userData) = Len(solutionData)
  /\ {JSONstringify(<<userData[i]>>) : i \in 1..Len(userData)}
       = {JSONstringify(<<solutionData[i]>>) : i \in 1..Len(solutionData)}

\* userStr === solStr
Matches(userData, solutionData) == JSONstringify(userData) = JSONstringify(solutionData)

\* variant of MatchFeedback: the two banners exchanged
MatchFeedbackSwapped(match) ==
  IF match THEN Feedback("error", "Incorrect. Output differs from the expected solution.", "")
  ELSE Feedback("success", "Correct! Your output matches the solution.", "")

MatchFeedback(match) ==
  IF match THEN Feedback("success", "Correct! Your output matches the solution.", "")
  ELSE Feedback("error", "Incorrect. Output differs from the expected solution.", "")

\* variant of RunErrorFeedback: the banner of a failed validation
RunErrorFeedbackGeneric(message) == Feedback("error", "Could not validate. Check logic manually.", "")

\* the banner of a user query that raised
RunErrorFeedback(message) == Feedback("error", "SQL Error: ", message)

\* variant of RunFeedback: a reference solution that raises counts as a
\* mismatch
RunFeedbackMismatch(sol, data) ==
  IF ~IsNull(sol.error) THEN MatchFeedback(FALSE)
  ELSE MatchFeedback(Matches(Val(data), Val(sol.result)))

\* the banner of a run whose query succeeded: the catch around the
\* reference solution and the comparison, or the outcome of the comparison
RunFeedback(sol, data) ==
  IF ~IsNull(sol.error) THEN Feedback("error", "Could not validate. Check logic manually.", "")
  ELSE MatchFeedback(Matches(Val(data), Val(sol.result)))

WithinRows(tables) == \A tn \in TableNames : IF IsNull(tables[tn]) THEN TRUE ELSE Len(Val(tables[tn])) <= MaxRows

handleRunQuery ==
  /\ Sql
  /\ IF IsNull(challenge)
       THEN /\ last' = Hist("runNoop")
            /\ UNCHANGED <<server, parser, variant, crashed, challenge, env, gen, pyVars, sqlVars>>
       ELSE LET qs == Val(Val(challenge).questions)
                hasQ == currentQIndex < Len(qs)
                result == executeSql(userQuery, dbRef)
                pre == IF hasQ THEN Reference(qs[currentQIndex + 1], Val(dbRef).tables).result ELSE None
            IN /\ WithinRows(result.tables)
               /\ IF ~IsNull(result.error)
                    THEN /\ feedback' = RunErrorFeedback(Val(result.error))
                         /\ queryResult' = None
                         /\ dbRef' = Some([Val(dbRef) EXCEPT !.tables = result.tables])
                         /\ last' = [Hist("runError") EXCEPT !.idx = currentQIndex, !.refPre = pre]
                    ELSE LET sol == IF hasQ THEN Reference(qs[currentQIndex + 1], result.tables)
                                    ELSE [result |-> None, error |-> Some("Cannot read properties of undefined"),
                                          tables |-> result.tables]
                         IN /\ queryResult' = result.data
                            /\ dbRef' = Some([Val(dbRef) EXCEPT !.tables = sol.tables])
                            /\ feedback' = RunFeedback(sol, result.data)
                            /\ last' = [Hist("run") EXCEPT !.idx = currentQIndex, !.user = result.data,
                                                          !.sol = sol.result, !.refPre = pre]
               /\ UNCHANGED <<server, parser, variant, crashed, challenge, env, gen, pyVars,
                              isLoading, isSqlReady, sqlJsRef, currentQIndex, tablePreviews,
                              expectedResult, expectedError, userQuery>>

NextSql ==
  \/ initEngineOk
  \/ initEngineFail
  \/ \E m \in Modes, tp \in Topics, cn \in CompanyNames : generateStart(m, tp, cn)
  \/ \E resp \in Responses(SqlDocIds) : generateFinish(resp)
  \/ \E i \in QIndexes : handleQuestionChange(i)
  \/ \E q \in UserQueries : setUserQuery(q)
  \/ handleRunQuery

\* ---------------------------------------------------------- the Python page
\* the interpreter: its global variables, the files of its file system, the
\* text in sys.stdout and the current matplotlib figure
FreshPy == [vars |-> {}, files |-> {}, stdout |-> <<>>, fig |-> "none"]

\* loadEngine, loadPyodide resolved
loadEngineLoaded ==
  /\ Py /\ env = "loading"
  /\ env' = "installing"
  /\ envLoadingText' = "Installing Pandas & Scikit-Learn (this may take 30s)..."
  /\ last' = Hist("env")
  /\ UNCHANGED <<server, parser, variant, crashed, challenge, gen, sqlVars, pyodide, isEnvReady,
                 userCode, output, plotImage, isRunning, isGenerating, run>>

\* loadEngine, the packages installed
loadEngineOk ==
  /\ Py /\ env = "installing"
  /\ env' = "ready"
  /\ pyodide' = Some(FreshPy)
  /\ isEnvReady' = TRUE
  /\ envLoadingText' = "Ready"
  /\ last' = Hist("env")
  /\ UNCHANGED <<server, parser, variant, crashed, challenge, gen, sqlVars, userCode, output,
                 plotImage, isRunning, isGenerating, run>>

\* what loadPyodide, loadPackage, install or the set-up code reject with
EnvFailures == {"Failed to fetch", "Out of memory"}
InstallationFailed(message) == "Installation Failed: " \o message

\* loadEngine, one of its awaits rejected
loadEngineFail(message) ==
  /\ Py /\ env \in {"loading", "installing"}
  /\ env' = "failed"
  /\ envLoadingText' = InstallationFailed(message)
  /\ last' = Hist("env")
  /\ UNCHANGED <<server, parser, variant, crashed, challenge, gen, sqlVars, pyodide, isEnvReady,
                 userCode, output, plotImage, isRunning, isGenerating, run>>

\* variant of GenerateDisabled: the button waits for a generation only
GenerateDisabledWhileGenerating == isGenerating

\* disabled of the Generate Challenge button and of the Run Code button
GenerateDisabled == ~isEnvReady \/ isGenerating
RunDisabled == ~isEnvReady \/ isRunning

\* the programs the user types into the editor
UserCodes == {"assign", "printx", "raise", "plot"}

setUserCode(c) ==
  /\ Py /\ c # userCode
  /\ userCode' = c
  /\ last' = Hist("edit")
  /\ UNCHANGED <<server, parser, variant, crashed, challenge, env, gen, sqlVars, pyodide, isEnvReady,
                 envLoadingText, output, plotImage, isRunning, isGenerating, run>>

\* loadDatasetToPython then the proxy call are awaited in turn
\* selectedDataset is the form field as it stands when the button is pressed
pyGenerateStart(selectedDataset) ==
  /\ Py /\ ~GenerateDisabled
  /\ isGenerating' = TRUE
  /\ challenge' = None
  /\ output' = <<>>
  /\ plotImage' = None
  /\ gen' = [pc |-> "dataset", mode |-> selectedDataset, prev |-> challenge, ran |-> FALSE]
  /\ last' = [Hist("genStart") EXCEPT !.prev = challenge]
  /\ UNCHANGED <<server, parser, variant, crashed, env, sqlVars, pyodide, isEnvReady, envLoadingText,
                 userCode, isRunning, run>>

\* loadDatasetToPython: the file is written, or the failure is shown
loadDatasetToPython(ok) ==
  /\ Py /\ gen.pc = "dataset"
  /\ IF IsNull(pyodide)
       THEN /\ UNCHANGED <<pyodide, output>>
            /\ last' = Hist("datasetSkip")
     ELSE IF ok
       THEN /\ pyodide' = Some([Val(pyodide) EXCEPT !.files = @ \cup {gen.mode}])
            /\ UNCHANGED output
            /\ last' = Hist("datasetOk")
       ELSE /\ output' = <<"Error loading dataset: ", "Failed to fetch">>
            /\ UNCHANGED pyodide
            /\ last' = Hist("datasetFail")
  /\ gen' = [gen EXCEPT !.pc = "fetch"]
  /\ UNCHANGED <<server, parser, variant, crashed, challenge, env, sqlVars, isEnvReady, envLoadingText,
                 userCode, plotImage, isRunning, isGenerating, run>>

\* the interpreter holds a variable, a file other than the dataset just
\* written, or text in its stdout buffer
Residue(py, dataset) ==
  \/ py.vars # {}
  \/ py.files \ {dataset} # {}
  \/ py.stdout # <<>>

\* the text of the candidate with its fences removed, trimmed
pyCleanText(text) == Trim(StripFences(text))

\* the try block of the generation on the proxy's response: the parsed
\* document, or the message of the error thrown
PyGenResult(resp) ==
  [parsed |-> IF resp.kind = "candidates" THEN JSONparse(pyCleanText(resp.text), PyDocIds) ELSE None,
   message |-> IF resp.kind \in {"throws", "error"} THEN resp.message
               ELSE IF resp.kind = "empty" THEN "Cannot read properties of undefined"
               ELSE "Unexpected token"]

pyGenerateFinish(resp) ==
  /\ Py /\ gen.pc = "fetch"
  /\ LET parsed == PyGenResult(resp).parsed
         message == PyGenResult(resp).message
     IN IF IsNull(parsed)
          THEN /\ output' = <<"Generation Error: ", message>>
               /\ last' = [Hist("genFail") EXCEPT !.prev = gen.prev]
               /\ UNCHANGED <<challenge, userCode>>
          ELSE /\ challenge' = Some(PyDoc(Val(parsed)))
               /\ userCode' = IF IsNull(PyDoc(Val(parsed)).starter_code) THEN "undefined"
                              ELSE Val(PyDoc(Val(parsed)).starter_code)
               /\ last' = [Hist("genOk") EXCEPT !.prev = gen.prev, !.doc = Val(parsed),
                                                 !.residue = (~gen.ran /\ Residue(Val(pyodide), gen.mode))]
               /\ UNCHANGED output
  /\ isGenerating' = FALSE
  /\ gen' = NoGen
  /\ UNCHANGED <<server, parser, variant, crashed, env, sqlVars, pyodide, isEnvReady, envLoadingText,
                 plotImage, isRunning, run>>

\* runPythonAsync(code): the interpreter afterwards and the exception raised
PyExec(code, py) ==
  CASE code = "assign" -> [py |-> [py EXCEPT !.vars = @ \cup {"x"}], raised |-> None]
    [] code = "printx" ->
         IF "x" \in py.vars THEN [py |-> [py EXCEPT !.stdout = Append(@, "x = 1")], raised |-> None]
         ELSE [py |-> py, raised |-> Some("NameError")]
    [] code = "raise" -> [py |-> [py EXCEPT !.stdout = Append(@, "partial")], raised |-> Some("ValueError")]
    [] code = "plot" -> [py |-> [py EXCEPT !.fig = "drawn"], raised |-> None]
    [] code = "starter" ->
         IF py.files = {} THEN [py |-> py, raised |-> Some("FileNotFoundError")]
         ELSE [py |-> [py EXCEPT !.vars = @ \cup {"df"}], raised |-> None]
    [] code = "" -> [py |-> py, raised |-> None]
    [] OTHER -> [py |-> py, raised |-> Some("TypeError")]

\* sys.stdout = io.StringIO(); plt.clf(): the current figure is cleared, and
\* made first when there is none
\* variant of PyResetCapture: the capture buffer of the earlier runs is kept
PyResetCaptureKeep(py) == [py EXCEPT !.fig = "blank"]

PyResetCapture(py) == [py EXCEPT !.stdout = <<>>, !.fig = "blank"]

handleRunCodeStart ==
  /\ Py /\ ~RunDisabled
  /\ ~IsNull(pyodide)
  /\ isRunning' = TRUE
  /\ output' = <<>>
  /\ plotImage' = None
  /\ run' = [pc |-> "running", code |-> userCode]
  /\ last' = Hist("runStart")
  /\ UNCHANGED <<server, parser, variant, crashed, challenge, env, gen, sqlVars, pyodide, isEnvReady,
                 envLoadingText, userCode, isGenerating>>

handleRunCodeFinish ==
  /\ Py /\ run.pc = "running"
  /\ LET r == PyExec(run.code, PyResetCapture(Val(pyodide)))
     IN /\ pyodide' = Some(r.py)
        /\ IF ~IsNull(r.raised)
             THEN /\ output' = <<"Traceback:", Val(r.raised)>>
                  /\ UNCHANGED plotImage
             ELSE /\ output' = r.py.stdout
                  /\ plotImage' = IF r.py.fig # "none" THEN Some(r.py.fig) ELSE plotImage
        /\ last' = Hist(IF IsNull(r.raised) THEN "runOk" ELSE "runRaised")
  /\ isRunning' = FALSE
  /\ run' = NoRun
  /\ gen' = IF gen.pc = "idle" THEN gen ELSE [gen EXCEPT !.ran = TRUE]
  /\ UNCHANGED <<server, parser, variant, crashed, challenge, env, sqlVars, isEnvReady, envLoadingText,
                 userCode, isGenerating>>

NextPy ==
  \/ loadEngineLoaded
  \/ loadEngineOk
  \/ \E message \in EnvFailures : loadEngineFail(message)
  \/ \E c \in UserCodes : setUserCode(c)
  \/ \E d \in DATASETS : pyGenerateStart(d)
  \/ \E ok \in BOOLEAN : loadDatasetToPython(ok)
  \/ \E resp \in Responses(PyDocIds) : pyGenerateFinish(resp)
  \/ handleRunCodeStart
  \/ handleRunCodeFinish

Next == NextSql \/ NextPy
Spec == Init /\ [][Next]_vars

\* the inputs of the liveness specification: documents answered to the
\* generations, editor texts (one that prints, one that raises), dataset
LiveDocIds == {"docB", "docBadSchema", "docNoQuestions"}
LivePyDocIds == {"pyA"}
LiveCodes == {"printx", "raise"}
LiveDatasets == {"titanic"}

\* every awaited call returns or throws: the continuation of a started
\* generation, dataset load or run is eventually executed
Returns ==
  /\ WF_vars(\E resp \in Responses(LiveDocIds) : generateFinish(resp))
  /\ WF_vars(\E ok \in BOOLEAN : loadDatasetToPython(ok))
  /\ WF_vars(\E resp \in Responses(LivePyDocIds) : pyGenerateFinish(resp))
  /\ WF_vars(handleRunCodeFinish)

\* the operations that start, finish or enable a generation or a run
NextLive ==
  \/ initEngineOk
  \/ initEngineFail
  \/ \E m \in Modes, tp \in Topics, cn \in CompanyNames : generateStart(m, tp, cn)
  \/ \E resp \in Responses(LiveDocIds) : generateFinish(resp)
  \/ loadEngineLoaded
  \/ loadEngineOk
  \/ \E message \in EnvFailures : loadEngineFail(message)
  \/ \E c \in LiveCodes : setUserCode(c)
  \/ \E d \in LiveDatasets : pyGenerateStart(d)
  \/ \E ok \in BOOLEAN : loadDatasetToPython(ok)
  \/ \E resp \in Responses(LivePyDocIds) : pyGenerateFinish(resp)
  \/ handleRunCodeStart
  \/ handleRunCodeFinish
SpecLive == Init /\ [][NextLive]_vars /\ Returns

\* ------------------------------------------------- the proxy, on its own
\* a request reaches the handler
receivePOST(body, envKey, provider) ==
  /\ server.pc = "idle"
  /\ server' = [NoRequest EXCEPT !.pc = "received", !.body = body, !.envKey = envKey, !.provider = provider]
  /\ UNCHANGED <<pageVars, parser>>

\* the handler returns its response
answerPOST ==
  /\ server.pc = "received"
  /\ server' = [server EXCEPT !.pc = "answered", !.answer = POST(server.body, server.envKey, server.provider)]
  /\ UNCHANGED <<pageVars, parser>>

\* the response is delivered: the handler keeps nothing of the request
closePOST ==
  /\ server.pc = "answered"
  /\ server' = NoRequest
  /\ UNCHANGED <<pageVars, parser>>

NextProxy ==
  \/ \E body \in Bodies, envKey \in ServerKeys, provider \in ProviderAnswers({"docB"}) :
        receivePOST(body, envKey, provider)
  \/ answerPOST
  \/ closePOST

SpecProxy == Init /\ [][NextProxy]_vars

\* ------------------------------------------------- the parser, on its own
\* longest text between the fences
MaxTextLen == 3

\* the characters of a model text for the page: a document, white space,
\* fences and quotes
TextAlphabet == {IF variant = "sql" THEN "docB" ELSE "pyA", NL, " ", Fence, FenceEnd, EscQuote, Quote}
ModelTexts == UNION {[1..n -> TextAlphabet] : n \in 1..MaxTextLen}

\* a text between an opening json fence and a closing fence, each on its
\* own line or not
FenceOpenings == {<<Fence>>, <<Fence, NL>>}
FenceClosings == {<<FenceEnd>>, <<NL, FenceEnd>>, <<NL, FenceEnd, NL>>}
Fenced(opening, text, closing) == opening \o text \o closing

\* JSON.parse(cleanJson(text)) of the SQL page, JSON.parse of the stripped
\* and trimmed text of the Python page
ParseText(text) ==
  IF variant = "sql" THEN JSONparse(cleanJson(text), SqlDocIds)
  ELSE JSONparse(pyCleanText(text), PyDocIds)

\* the model answers a text; the same text between fences is kept with it
receiveText(text, opening, closing) ==
  /\ parser.pc = "idle"
  /\ parser' = [NoText EXCEPT !.pc = "text", !.text = text, !.fenced = Fenced(opening, text, closing)]
  /\ UNCHANGED <<pageVars, server>>

\* both texts go through the parser of the page
parseText ==
  /\ parser.pc = "text"
  /\ parser' = [parser EXCEPT !.pc = "parsed", !.doc = ParseText(parser.text),
                               !.fencedDoc = ParseText(parser.fenced)]
  /\ UNCHANGED <<pageVars, server>>

dropText ==
  /\ parser.pc = "parsed"
  /\ parser' = NoText
  /\ UNCHANGED <<pageVars, server>>

NextParser ==
  \/ \E text \in ModelTexts, opening \in FenceOpenings, closing \in FenceClosings :
        receiveText(text, opening, closing)
  \/ parseText
  \/ dropText

SpecParser == Init /\ [][NextParser]_vars

\* ------------------------------------------------------------------ claims
\* the tables a fresh database holds once the schema and the data of a
\* challenge have been applied to it, the malformed data statements left out
IsWellFormed(k) == k.op # "bad"
LoadedTables(ch) ==
  ExecStmts(SelectSeq(StmtsOf(Val(ch.data_sql)), IsWellFormed),
            ExecStmts(StmtsOf(ch.schema_sql), EmptyTables, <<>>).tables, <<>>).tables
CreatedBy(text) == {text[i].tbl : i \in {j \in 1..Len(text) : text[j].op = "create"}}

\* C1: SQL page: when a generation has succeeded the database holds exactly
\* what the schema_sql and data_sql of the new challenge create in an empty
\* database, and while a challenge is displayed no table is visible that its
\* schema_sql does not create (none of an earlier challenge).
C1_DatabaseReplaced ==
  variant = "sql" =>
    /\ last.op = "genOk" => Val(dbRef).tables = LoadedTables(Val(challenge))
    /\ ~IsNull(challenge) =>
         \A tn \in TableNames :
            IF IsNull(Val(dbRef).tables[tn]) THEN TRUE ELSE tn \in CreatedBy(Val(challenge).schema_sql)

\* challenge B has loaded after challenge A, whose table is gone
C1_Witness ==
  /\ variant = "sql" /\ last.op = "genOk" /\ last.doc = "docB"
  /\ ~IsNull(last.prev) /\ Val(last.prev).id = "docA"
  /\ IsNull(Val(dbRef).tables["t"]) /\ ~IsNull(Val(dbRef).tables["u"])

\* C2: Python page: when a generation has succeeded (and no user code ran
\* while it was in flight), nothing that was in the interpreter when the
\* generation was requested is still there: no variable, no file but the
\* dataset this generation wrote, and no text in the stdout buffer.
C2_InterpreterReplaced ==
  (variant = "python" /\ last.op = "genOk") => ~last.residue

\* C3: build-then-swap: after a generation that failed, the challenge that
\* was displayed when it began is still displayed.
C3_BuildThenSwap ==
  (last.op = "genFail" /\ ~IsNull(last.prev)) => challenge = last.prev

\* C4: SQL page: whenever a challenge is displayed, the live database is the
\* one created for that challenge.
C4_DatabaseMatchesChallenge ==
  (variant = "sql" /\ ~IsNull(challenge)) =>
    (~IsNull(dbRef) /\ Val(dbRef).builtFor = Val(challenge).id)

\* a second challenge is displayed and the user has run a query against it
C4_Witness ==
  /\ variant = "sql" /\ ~IsNull(challenge) /\ Val(challenge).id = "docB"
  /\ last.op = "run" /\ Val(dbRef).builtFor = "docB"

\* C5: the reference result a run compares against is the reference
\* solution's result on the database as it was before the user's query.
C5_ReferenceBeforeUser ==
  (variant = "sql" /\ last.op = "run" /\ ~IsNull(last.sol)) => last.sol = last.refPre

\* C6: a run reports a match exactly when the user's rows and the reference
\* rows are the same sequence of row objects, the same column/value pairs in
\* the same order; the same rows in another order do not match.
C6_OrderSensitiveEquality ==
  (variant = "sql" /\ last.op = "run" /\ ~IsNull(last.sol)) =>
    ((Val(feedback).type = "success") <=> (Val(last.user) = Val(last.sol)))

\* the user's rows are those of the reference in reverse, and do not match
C6_Witness ==
  /\ variant = "sql" /\ last.op = "run" /\ ~IsNull(last.sol)
  /\ Len(Val(last.sol)) = 2
  /\ Val(last.user) = Reverse(Val(last.sol)) /\ Val(last.user) # Val(last.sol)
  /\ Val(feedback).type = "error"

\* C7: SQL page: when the user's query and the reference solution both ran
\* without error, the user's rows are displayed and the feedback is the
\* success banner if they equal the reference rows and the incorrect banner
\* if they do not.
C7_FeedbackIsComparison ==
  (variant = "sql" /\ last.op = "run" /\ ~IsNull(last.sol)) =>
    /\ queryResult = last.user
    /\ feedback = IF Val(last.user) = Val(last.sol)
                    THEN Feedback("success", "Correct! Your output matches the solution.", "")
                    ELSE Feedback("error", "Incorrect. Output differs from the expected solution.", "")

\* the user's count equals the reference count: success
C7_Witness ==
  /\ variant = "sql" /\ last.op = "run"
  /\ last.user = Some(<< << <<"count", 2>> >> >>) /\ last.sol = last.user
  /\ Val(feedback).type = "success"

\* C8: handleQuestionChange with the index the handler before it selected
\* leaves the cached reference result as that handler left it.
C8_ReselectIdempotent ==
  [][(last.op = "qchange" /\ last'.op = "qchange" /\ last'.idx = last.idx)
       => (expectedResult' = expectedResult /\ expectedError' = expectedError)]_vars

\* the same question has been selected twice in a row, with a cached result
C8_Witness ==
  /\ last.op = "qchange" /\ last.rep /\ last.idx = 1
  /\ expectedResult = Some(<< << <<"count", 2>> >> >>)

InFlight ==
  {k \in {"env", "gen", "run"} :
     \/ k = "env" /\ env \in {"loading", "installing"}
     \/ k = "gen" /\ gen.pc # "idle"
     \/ k = "run" /\ run.pc # "idle"}

\* C9: at most one of environment acquisition, challenge generation and
\* user-code execution is in flight.
C9_OneInFlight == Cardinality(InFlight) <= 1

\* C10: a document whose data_sql holds a malformed statement among its
\* inserts still loads: the generation succeeds, the challenge is displayed
\* with the success banner, and the database holds every other statement's
\* effect, in order.
HasMalformedInsert(id) ==
  /\ ~IsNull(SqlDoc(id).data_sql)
  /\ \E i \in 1..Len(Val(SqlDoc(id).data_sql)) : Val(SqlDoc(id).data_sql)[i].op = "bad"
C10_MalformedInsertSkipped ==
  (variant = "sql" /\ last.op \in {"genOk", "genFail"} /\ last.doc \in SqlDocIds) =>
    (HasMalformedInsert(last.doc) =>
       /\ last.op = "genOk"
       /\ ~IsNull(challenge) /\ Val(challenge).id = last.doc
       /\ Val(feedback).type = "success"
       /\ Val(dbRef).tables = LoadedTables(Val(challenge)))

\* the inserts on both sides of the malformed statement are in the table
C10_Witness ==
  /\ variant = "sql" /\ last.op = "genOk" /\ last.doc = "docA"
  /\ Val(dbRef).tables["t"] = Some(<< <<1, 2>>, <<2, 1>> >>)

\* C11: SQL page: when applying the schema_sql of a document raises, the
\* load ends there: the generation fails, the database holds what the schema
\* created before the error and no row of data_sql, no challenge is
\* displayed, no reference result or reference error is cached, and the
\* feedback is the error banner with the message the engine raised.
SchemaError(id) == DbExec(SqlDoc(id).schema_sql, EmptyTables).error
C11_SchemaFailureFatal ==
  (variant = "sql" /\ last.op \in {"genOk", "genFail"} /\ last.doc \in SqlDocIds) =>
    (~IsNull(SchemaError(last.doc)) =>
       /\ last.op = "genFail"
       /\ Val(dbRef).tables = DbExec(SqlDoc(last.doc).schema_sql, EmptyTables).tables
       /\ \A tn \in TableNames :
             IF IsNull(Val(dbRef).tables[tn]) THEN TRUE ELSE Val(Val(dbRef).tables[tn]) = <<>>
       /\ IsNull(challenge)
       /\ IsNull(expectedResult) /\ IsNull(expectedError)
       /\ feedback = Feedback("error", "Generation failed: ", Val(SchemaError(last.doc))))

\* the schema of docBadSchema created its table and then raised, after a
\* challenge had been displayed
C11_Witness ==
  /\ variant = "sql" /\ last.op = "genFail" /\ last.doc = "docBadSchema"
  /\ ~IsNull(last.prev)
  /\ Val(dbRef).tables["u"] = Some(<<>>)
  /\ Val(feedback).detail = "syntax error"

\* C12: proxy: a request whose body carries no key (absent or empty) while
\* the server has no default key (unset or empty) is answered with status
\* 400 and an error envelope with a message, and no request was made to the
\* AI provider.
C12_MissingKeyRejected ==
  (server.pc = "answered" /\ ~IsNull(server.body)) =>
    ((Falsy(Val(server.body).apiKey) /\ Falsy(server.envKey)) =>
       /\ server.answer.status = 400
       /\ server.answer.body.kind = "error" /\ server.answer.body.message # ""
       /\ server.answer.calls = <<>>)

\* a request with an empty key has been answered by a server without a key,
\* whatever the provider would have said
C12_Witness ==
  /\ server.pc = "answered" /\ server.body = Some(Body("prompt", Some("")))
  /\ server.envKey = None /\ server.provider.status = 200
  /\ server.answer.status = 400

\* C13: proxy: when the caller supplied a non-empty key, one request goes to
\* the provider and carries that key, whatever the server's default; a
\* request to the provider carries the server's default only when the caller
\* supplied no key.
C13_CallerKeyFirst ==
  (server.pc = "answered" /\ ~IsNull(server.body)) =>
    LET apiKey == Val(server.body).apiKey
        calls == server.answer.calls
    IN /\ ~Falsy(apiKey) => (Len(calls) = 1 /\ calls[1].key = apiKey)
       /\ Falsy(apiKey) => \A i \in 1..Len(calls) : calls[i].key = server.envKey /\ ~Falsy(server.envKey)

\* both keys were there and the caller's went to the provider
C13_Witness ==
  /\ server.pc = "answered" /\ ~IsNull(server.body)
  /\ Val(server.body).apiKey = Some("callerKey") /\ server.envKey = Some("serverKey")
  /\ server.answer.calls = <<[key |-> Some("callerKey"), prompt |-> Val(server.body).prompt]>>

\* C14: SQL page: a generation requested in manual mode with an empty topic,
\* or in company mode with an empty company name, only sets an error
\* feedback: no proxy call is started, and the challenge, the question
\* index, the database, the cached reference result and error, the user's
\* query, the query result and the loading flag stay as they were.
InvalidForm(form) ==
  \/ form.mode = "manual" /\ form.topic = ""
  \/ form.mode = "company" /\ form.companyName = ""
C14_ValidationFrame ==
  [][(variant = "sql" /\ last'.op \in {"validate", "genStart"} /\ InvalidForm(Val(last'.form))) =>
       /\ last'.op = "validate"
       /\ ~IsNull(feedback') /\ Val(feedback').type = "error"
       /\ gen'.pc = "idle" /\ gen' = gen
       /\ UNCHANGED <<challenge, currentQIndex, dbRef, expectedResult, expectedError,
                      userQuery, queryResult, isLoading>>]_vars

\* the company name was missing while a challenge with a query result was
\* displayed, and both are still there
C14_Witness ==
  /\ variant = "sql" /\ last.op = "validate" /\ Val(last.form).mode = "company"
  /\ ~IsNull(challenge) /\ ~IsNull(queryResult) /\ currentQIndex = 1
  /\ feedback = Feedback("error", "Please enter a company name.", "")

\* C15: SQL page: a challenge displayed from a document that has a top-level
\* question and no questions array has exactly one question, whose title,
\* difficulty, question, solution_sql and explanation are the top-level
\* values and whose tags are the top-level tags, or empty when the document
\* has none; nothing else of the document differs.  A challenge displayed
\* from a document that has a questions array is that document.
IsFlat(doc) == IsNull(doc.questions) /\ ~IsNull(doc.flat.question)
C15_FlatNormalised ==
  (variant = "sql" /\ last.op \in {"genOk", "genFail"} /\ last.doc \in SqlDocIds /\ ~IsNull(challenge)) =>
    LET doc == SqlDoc(last.doc)
        ch == Val(challenge)
    IN /\ ~IsNull(doc.questions) => ch = doc
       /\ IsFlat(doc) =>
            /\ ~IsNull(ch.questions) /\ Len(Val(ch.questions)) = 1
            /\ LET q == Val(ch.questions)[1]
               IN /\ q.title = Val(doc.flat.title)
                  /\ q.difficulty = Val(doc.flat.difficulty)
                  /\ q.question = Val(doc.flat.question)
                  /\ q.solution_sql = Val(doc.flat.solution_sql)
                  /\ q.explanation = Val(doc.flat.explanation)
                  /\ q.tags = IF IsNull(doc.flat.tags) THEN <<>> ELSE Val(doc.flat.tags)
            /\ [ch EXCEPT !.questions = None] = doc

\* the flat document without tags is displayed as one question with no tag,
\* and its reference result was computed from the top-level solution
C15_Witness ==
  /\ variant = "sql" /\ last.op = "genOk" /\ last.doc = "docFlat"
  /\ Val(Val(challenge).questions)[1].tags = <<>>
  /\ Val(Val(challenge).questions)[1].solution_sql = <<Select("t", <<1>>)>>
  /\ expectedResult = Some(<< << <<"a", 2>> >> >>)

LacksRequiredField(id) ==
  IF variant = "sql"
    THEN id \in SqlDocIds /\ (IsNull(SqlDoc(id).data_sql)
                                \/ (IsNull(SqlDoc(id).questions) /\ IsNull(SqlDoc(id).flat.question)))
    ELSE id \in PyDocIds /\ IsNull(PyDoc(id).starter_code)
GenerationErrorShown ==
  IF variant = "sql"
    THEN ~crashed /\ ~IsNull(feedback) /\ Val(feedback).type = "error"
    ELSE Len(output) = 2 /\ output[1] = "Generation Error: "
C17_MalformedRejected ==
  (last.op \in {"genOk", "genFail"} /\ (last.doc = "" \/ LacksRequiredField(last.doc))) =>
    /\ last.op = "genFail"
    /\ GenerationErrorShown
    /\ IsNull(challenge)

\* C18: once the engine of the page has failed to load, the failure is
\* final: the load is not tried again, the readiness flag of the page stays
\* false, no generation is started or validated, the Run button of the SQL
\* page has no challenge to enable it, and no run of user code starts.
C18_EnvironmentFailureTerminal ==
  [][env = "failed" =>
       /\ env' = "failed"
       /\ ~isSqlReady /\ ~isEnvReady /\ ~isSqlReady' /\ ~isEnvReady'
       /\ IsNull(challenge) /\ IsNull(challenge')
       /\ gen'.pc = "idle" /\ run'.pc = "idle"
       /\ last'.op \notin {"validate", "genStart", "runStart", "run", "runError"}]_vars

\* the installation of the Python packages failed and the user has typed
\* into the editor since
C18_Witness ==
  /\ variant = "python" /\ env = "failed" /\ last.op = "edit"
  /\ envLoadingText = InstallationFailed("Out of memory")
  /\ GenerateDisabled /\ RunDisabled

\* C19: once the engine of the page has failed to load, the state of the
\* page holds the reason: the status text of the Python page, a banner of
\* the SQL page.
C19_FailureReasonRetained ==
  env = "failed" =>
    IF variant = "python" THEN envLoadingText \in {InstallationFailed(m) : m \in EnvFailures}
    ELSE ~IsNull(feedback) /\ Val(feedback).type = "error"

\* C20: no handler of a user action leaves the page unable to render, and an
\* error in a generation or a run is on display when the handler has ended.
C20_ErrorsCaught ==
  /\ ~crashed
  /\ (variant = "sql" /\ last.op \in {"genFail", "runError"}) =>
       (~IsNull(feedback) /\ Val(feedback).type = "error")
  /\ (variant = "python" /\ last.op = "genFail") => (Len(output) = 2 /\ output[1] = "Generation Error: ")
  /\ (variant = "python" /\ last.op = "runRaised") => (Len(output) = 2 /\ output[1] = "Traceback:")

\* C21: SQL page: when a generation has succeeded for a challenge with at
\* least one question, the cache holds the outcome of the solution of
\* question 0 on the database as the schema and the data loaded it: its
\* rows and no error, or its error and no rows.
C21_FirstReferenceEager ==
  (variant = "sql" /\ last.op = "genOk") =>
    LET ch == Val(challenge)
        qs == Val(ch.questions)
    IN Len(qs) > 0 =>
         LET out == DbExec(qs[1].solution_sql, LoadedTables(ch))
         IN IF IsNull(out.error)
              THEN expectedResult = Some(parseSqlResult(out.results)) /\ IsNull(expectedError)
              ELSE IsNull(expectedResult) /\ expectedError = out.error

\* the three-question challenge has loaded and the rows of its first
\* solution are cached
C21_Witness ==
  /\ variant = "sql" /\ last.op = "genOk" /\ last.doc = "docA"
  /\ expectedResult = Some(<< << <<"a", 1>>, <<"b", 2>> >>, << <<"a", 2>>, <<"b", 1>> >> >>)
  /\ IsNull(expectedError)

\* C22: SQL page: the cached reference result and the cached reference
\* error are never both set.
C22_ResultOrError ==
  variant = "sql" => ~(~IsNull(expectedResult) /\ ~IsNull(expectedError))

\* the third question of docA was selected: its solution raised, the error
\* is cached and the rows cached for the question before are gone
C22_Witness ==
  /\ variant = "sql" /\ last.op = "qchange" /\ last.idx = 2
  /\ expectedError = Some("no such table") /\ IsNull(expectedResult)

\* C23: SQL page: a question switch leaves the challenge, the table
\* previews and the database as they were: the database is not created
\* again and the schema and the data are not applied again, so what the
\* user's queries did to the tables is still there.
C23_SwitchFrame ==
  [][(variant = "sql" /\ last'.op = "qchange") =>
       /\ challenge' = challenge
       /\ tablePreviews' = tablePreviews
       /\ dbRef' = dbRef]_vars

\* a question was selected after the user's DELETE emptied the table the
\* challenge had loaded two rows into, and the table is still empty
C23_Witness ==
  /\ variant = "sql" /\ last.op = "qchange" /\ last.idx = 1
  /\ Val(challenge).id = "docA"
  /\ Val(dbRef).tables["t"] = Some(<<>>)
  /\ expectedResult = Some(<< << <<"count", 0>> >> >>)

\* C24: from the start of a generation that passed validation until it
\* succeeds no challenge is displayed, and none is displayed after a
\* generation that failed.
C24_ChallengeDiscarded ==
  /\ gen.pc # "idle" => IsNull(challenge)
  /\ last.op = "genFail" => IsNull(challenge)

\* C25: proxy: when the request has a key to use and the provider answers
\* JSON, one request went to the provider, with the prompt of the body, and
\* the answer of the proxy is the provider's body with status 200 if the
\* provider's status was an OK one and with the provider's status if not.
C25_Relay ==
  (server.pc = "answered" /\ ~IsNull(server.body)) =>
    LET body == Val(server.body)
        keyAvailable == ~Falsy(body.apiKey) \/ ~Falsy(server.envKey)
    IN (keyAvailable /\ server.provider.kind = "json") =>
         /\ Len(server.answer.calls) = 1
         /\ server.answer.calls[1].prompt = body.prompt
         /\ server.answer.body = server.provider.body
         /\ server.answer.status = IF server.provider.status \in 200..299 THEN 200
                                   ELSE server.provider.status

\* the provider refused the server's key with 400, and the proxy passed the
\* refusal on
C25_Witness ==
  /\ server.pc = "answered" /\ server.body = Some(Body("other prompt", None))
  /\ server.envKey = Some("serverKey") /\ server.provider.status = 400
  /\ server.answer.status = 400 /\ server.answer.body.message = "API key not valid"
  /\ server.answer.calls = <<[key |-> Some("serverKey"), prompt |-> "other prompt"]>>

\* C26: SQL page: the reference rows a run compares the user's rows with
\* are the expected output on display for the selected question, and the
\* run reports success exactly when the user's rows are those on display.
C26_ComparesWithDisplayed ==
  (variant = "sql" /\ last.op = "run" /\ ~IsNull(last.sol)) =>
    /\ last.sol = expectedResult
    /\ IF IsNull(expectedResult) THEN TRUE
       ELSE (Val(feedback).type = "success") <=> (Val(last.user) = Val(expectedResult))

\* C27: a run requested while no challenge is displayed executes nothing and
\* changes no state of the page.
C27_RunNeedsChallenge ==
  [][(IsNull(challenge) /\ last'.op \in {"runNoop", "run", "runError", "runStart"}) =>
       UNCHANGED <<variant, crashed, challenge, env, gen, sqlVars, pyVars>>]_vars

\* C28: while a generation is in flight or a challenge is displayed, the
\* readiness flag of the page is true and its database or interpreter is
\* there.
C28_ReadyBeforeGeneration ==
  (gen.pc # "idle" \/ ~IsNull(challenge)) =>
    IF variant = "sql" THEN isSqlReady /\ ~IsNull(dbRef)
    ELSE isEnvReady /\ ~IsNull(pyodide)

\* a second generation of the Python page is loading its dataset into the
\* interpreter that holds the first one's
C28_Witness ==
  /\ variant = "python" /\ gen.pc = "fetch" /\ last.op = "datasetOk"
  /\ isEnvReady /\ Val(pyodide).files = DATASETS

\* C29: SQL page: the index of a displayed challenge with questions is one
\* of its questions; a question switch to an index that is none of them, or
\* without a challenge, changes nothing; a generation sets the index to 0
\* when it starts and it is 0 when the generation ends.
C29_IndexInRange ==
  [][/\ (variant = "sql" /\ ~IsNull(challenge')) =>
          IF IsNull(Val(challenge').questions) THEN TRUE
          ELSE IF Len(Val(Val(challenge').questions)) = 0 THEN TRUE
          ELSE 0 <= currentQIndex' /\ currentQIndex' < Len(Val(Val(challenge').questions))
     /\ (last'.op \in {"qnoop", "qchange"}
           /\ (IF IsNull(challenge) THEN TRUE
               ELSE last'.idx < 0 \/ last'.idx >= Len(Val(Val(challenge).questions)))) =>
          (last'.op = "qnoop" /\ UNCHANGED <<variant, crashed, challenge, env, gen, sqlVars, pyVars>>)
     /\ (variant = "sql" /\ last'.op \in {"genStart", "genOk", "genFail"}) => currentQIndex' = 0]_vars

\* the third question of docA is selected and a switch past the last
\* question was asked for
C29_Witness ==
  /\ variant = "sql" /\ last.op = "qnoop" /\ last.idx = 3
  /\ ~IsNull(challenge) /\ Val(challenge).id = "docA" /\ currentQIndex = 2

\* C30: SQL page: when the user's query raises, the run ends there: the
\* feedback is the error banner with the engine's message, no query result
\* is displayed, the reference solution is not executed, the cached
\* reference result stays, and neither match banner is shown.
C30_UserErrorReported ==
  [][(variant = "sql" /\ last'.op \in {"run", "runError"}
        /\ ~IsNull(executeSql(userQuery, dbRef).error)) =>
       /\ last'.op = "runError"
       /\ feedback' = Feedback("error", "SQL Error: ", Val(executeSql(userQuery, dbRef).error))
       /\ IsNull(queryResult')
       /\ IsNull(last'.sol)
       /\ UNCHANGED <<expectedResult, expectedError>>]_vars

\* the user counted a table docA does not have
C30_Witness ==
  /\ variant = "sql" /\ last.op = "runError" /\ Val(challenge).id = "docA"
  /\ userQuery = <<Count("u")>>
  /\ feedback = Feedback("error", "SQL Error: ", "no such table")
  /\ IsNull(queryResult) /\ ~IsNull(expectedResult)

\* C31: SQL page: when the user's query runs without error and the solution
\* of the selected question then raises, the run reports neither a match
\* nor a mismatch: the feedback is the could-not-validate banner and the
\* user's rows are displayed.
C31_ReferenceErrorNotCompared ==
  [][(variant = "sql" /\ last'.op \in {"run", "runError"}
        /\ IsNull(executeSql(userQuery, dbRef).error)
        /\ currentQIndex < Len(Val(Val(challenge).questions))
        /\ ~IsNull(DbExec(Val(Val(challenge).questions)[currentQIndex + 1].solution_sql,
                          executeSql(userQuery, dbRef).tables).error)) =>
       /\ last'.op = "run"
       /\ feedback' = Feedback("error", "Could not validate. Check logic manually.", "")
       /\ queryResult' = executeSql(userQuery, dbRef).data
       /\ ~IsNull(queryResult')]_vars

\* the third question of docA is selected, whose solution reads a table
\* that is not there; the user's two rows are displayed
C31_Witness ==
  /\ variant = "sql" /\ last.op = "run" /\ IsNull(last.sol)
  /\ Val(challenge).id = "docA" /\ currentQIndex = 2
  /\ ~IsNull(queryResult) /\ Len(Val(queryResult)) = 2
  /\ Val(feedback).message = "Could not validate. Check logic manually."

\* the controls that start a generation or a run are on the page and enabled
StartEnabled == ~crashed /\ ~StartDisabled
GenerateEnabled == ~crashed /\ ~GenerateDisabled
RunEnabled == ~crashed /\ ~RunDisabled

\* the in-flight flags are released once the awaited calls have returned
FlagsReleased ==
  /\ (isLoading ~> ~isLoading)
  /\ (isGenerating ~> ~isGenerating)
  /\ (isRunning ~> ~isRunning)

\* C32: every started generation or run completes or fails and releases its
\* in-flight flag, so that the control that started it is eventually
\* enabled again: Start (SQL), Generate and Run Code (Python).
C32_ControlsReenabled ==
  /\ (isLoading ~> (~isLoading /\ StartEnabled))
  /\ (isGenerating ~> (~isGenerating /\ GenerateEnabled))
  /\ (isRunning ~> (~isRunning /\ RunEnabled))

\* C33: Python page: a generation whose dataset file could not be loaded
\* into the environment does not end with a ready challenge: when it ends,
\* no challenge is displayed and the console shows the dataset failure
\* message.
C33_DatasetFailureEndsGeneration ==
  [][(variant = "python" /\ last.op = "datasetFail" /\ gen.pc = "fetch" /\ gen'.pc = "idle") =>
       /\ IsNull(challenge')
       /\ output' = <<"Error loading dataset: ", "Failed to fetch">>]_vars

\* C34: SQL page: a switch to a question resets the working state of the
\* question: the editor holds the placeholder text, the displayed result
\* and the feedback are cleared, and the cached reference is the outcome of
\* the selected question's solution on the database: its rows, or null
\* with its error message, never the previous question's rows.
C34_SwitchResets ==
  [][(variant = "sql" /\ last'.op = "qchange") =>
       LET r == DbExec(Val(Val(challenge).questions)[last'.idx + 1].solution_sql, Val(dbRef).tables)
       IN /\ currentQIndex' = last'.idx
          /\ userQuery' = Placeholder
          /\ queryResult' = None
          /\ feedback' = None
          /\ IF IsNull(r.error)
               THEN expectedResult' = Some(parseSqlResult(r.results)) /\ expectedError' = None
               ELSE expectedResult' = None /\ expectedError' = r.error]_vars

\* the third question of docA has just been selected: its solution raised,
\* no reference rows are cached; the editor holds the placeholder
C34_Witness ==
  /\ variant = "sql" /\ last.op = "qchange" /\ ~last.rep
  /\ Val(challenge).id = "docA" /\ currentQIndex = 2
  /\ IsNull(expectedResult) /\ ~IsNull(expectedError)
  /\ userQuery = Placeholder /\ IsNull(queryResult) /\ IsNull(feedback)

\* what a run of the code prints: the text it adds to the capture buffer
Printed(code, py) ==
  LET after == PyExec(code, py).py.stdout
  IN SubSeq(after, Len(py.stdout) + 1, Len(after))

\* C35: Python page: a run ends either with captured output or with a
\* failure, never both: when the code raises, the console holds the
\* traceback message only (none of the text printed before the error) and
\* no plot image is set; after a successful run the console holds exactly
\* the text this run printed, nothing of earlier runs.
C35_OutputOrFailure ==
  [][(variant = "python" /\ run.pc = "running" /\ run'.pc = "idle") =>
       IF IsNull(PyExec(run.code, Val(pyodide)).raised)
         THEN /\ last'.op = "runOk"
              /\ output' = Printed(run.code, Val(pyodide))
         ELSE /\ last'.op = "runRaised"
              /\ output' = <<"Traceback:", Val(PyExec(run.code, Val(pyodide)).raised)>>
              /\ IsNull(plotImage')]_vars

\* a run has raised after printing: the text is in the capture buffer, the
\* console shows the traceback only and there is no plot
C35_Witness ==
  /\ variant = "python" /\ last.op = "runRaised"
  /\ Val(pyodide).stdout = <<"partial">>
  /\ output = <<"Traceback:", "ValueError">>
  /\ IsNull(plotImage)

\* a request whose handling raises an exception: the body cannot be read,
\* or a key is available and the call to the provider or the decoding of
\* its response throws
HandlingThrows ==
  \/ IsNull(server.body)
  \/ /\ ~Falsy(Val(server.body).apiKey) \/ ~Falsy(server.envKey)
     /\ server.provider.kind \in {"fetchThrows", "jsonThrows"}

\* C36: generation proxy: the handler answers every request, it never
\* throws; a request whose handling raised an exception is answered with
\* status 500 and an error envelope carrying a message, and the client
\* that reads this answer (SQL or Python page) ends the generation as
\* failed with that message.
C36_ExceptionsAnswered ==
  server.pc = "answered" =>
    /\ server.answer.body.kind # "throws"
    /\ HandlingThrows =>
         /\ server.answer.status = 500
         /\ server.answer.body.kind = "error"
         /\ server.answer.body.message # ""
         /\ IsNull(server.body) \/ server.answer.body.message = server.provider.body.message
         /\ ~GenResult(server.answer.body).ok
         /\ GenResult(server.answer.body).message = server.answer.body.message
         /\ IsNull(PyGenResult(server.answer.body).parsed)
         /\ PyGenResult(server.answer.body).message = server.answer.body.message

\* the provider's response was not JSON: the handler has answered 500 with
\* the parser's message
C36_Witness ==
  /\ server.pc = "answered" /\ ~IsNull(server.body)
  /\ server.provider.kind = "jsonThrows"
  /\ server.answer.status = 500
  /\ server.answer.body = Envelope("error", "Unexpected token", <<>>)
  /\ Len(server.answer.calls) = 1

====
